---- MODULE Spec2Model ----
(***************************************************************************)
(* A model of tunnel-ns (src/src/bin/tunnel-ns.rs) and of the shared       *)
(* library it is built on: the idle loop (src/src/idle_loop.rs) and the    *)
(* subprocess boundary (src/src/subprocess.rs).                            *)
(*                                                                         *)
(* The main thread is sequential.  Its code between two blocking points    *)
(* that the rest of the system can observe is one action: a whole          *)
(* NetNs::new, a whole Drop for NetNs, one system call of next_event.      *)
(* The relay worker of start_signal_worker and the environment (signals,   *)
(* the writer of the controlling input, exiting children) are the other    *)
(* processes.  The external commands are assumed to terminate; whether     *)
(* they succeed is an input of the action that runs them.                  *)
(***************************************************************************)
EXTENDS Integers, Sequences, FiniteSets, TLC

(***************************************************************************)
(* Bounds of the model.                                                    *)
(***************************************************************************)
\* the in-range namespace count that is requested
MaxN == 2
\* process ids that `ip netns pids` may report are 1..MaxPid
MaxPid == 2
\* asynchronous children of the process are 1..MaxChildren
MaxChildren == 2
\* tokens the signal pipe holds before a write to it blocks
PipeCap == 1
\* the number of variables in the inherited environment is 0..MaxEnv
MaxEnv == 2
\* the exit codes of a subprocess are 0..MaxCode
MaxCode == 2

(***************************************************************************)
(* Program constants.                                                      *)
(***************************************************************************)
\* parse_cmdline: n_namespaces must be from 1 to 1024
MinNamespaces == 1
MaxNamespaces == 1024
\* kill_processes_in_namespace: sleep(Duration::from_secs(5))
GraceSecs == 5
\* consume_stdin: scratch: [u8; 4096]
ScratchLen == 4096
\* serialize_signal: assert!(rv < 256)
TokenLimit == 256

Prefix == "x"
Pids == 1..MaxPid
ChildPids == 1..MaxChildren
\* the counts given on the command line: below range, in range, above range
RequestedCounts == {MinNamespaces - 1, MaxN, MaxNamespaces + 1}

VARIABLES
    \* ---- command line (Args) and ChildEnv
    nnsp, dryrun, verbose,
    environ,      \* the inherited environment: a sequence of <<key, value>>
    child_env,    \* ChildEnv::env, the result of prepare_child_env
    spawn_env,    \* the environment of the Command that is spawned: a set
                  \* of <<key, value>>, one per key
    sub,          \* one call of run / run_get_output: its arguments, the
                  \* Command it spawned, the wait status, what it returned
    \* ---- main thread
    pc,           \* position of the main thread
    i,            \* loop index of create_namespaces
    nsps,         \* Vec<NetNs>: names of the owned namespaces, in push order
    result,       \* result of inner_main: "none", "ok", "err"
    exit_code,    \* -1 while running
    \* ---- output streams
    stdout,       \* lines received by the original standard output
    closes,       \* number of times fd 1 was closed
    diag,         \* main() printed its diagnostic line
    \* ---- history of the lifecycle
    ops,          \* operations issued by the last NetNs::new / Drop for NetNs
    last,         \* [kind, name, step]: what that last invocation was
    created,      \* names in the order they became owned
    destroyed,    \* names in the order Drop for NetNs ran on them
    ndel,         \* per name: how often `ip netns del` was issued
    loop_entered, \* IdleLoop::new was reached
    \* ---- signals
    masked,       \* the blocked-signal mask is installed
    sigpending,   \* blocked signals pending on the process
    wpc, wsig,    \* relay worker: position, dequeued signal
    pipe,         \* tokens in the signal pipe
    \* ---- controlling input
    stdin_buf,    \* unread bytes: none, or some (fewer than one read takes)
    stdin_state,  \* "open"; "eof": the writer closed it; "err": reads fail
                  \* with an error other than would-block
    stdin_nonblock, \* O_NONBLOCK on fd 0, as inherited
    \* ---- children
    zombies,      \* exited, not yet reaped asynchronous children
    \* ---- IdleLoop
    stdin_closed, stdin_pending, signal_pending, children_pending,
    ev            \* the event next_event returned last

args_vars == <<nnsp, dryrun, verbose, environ, child_env, spawn_env, sub>>
main_vars == <<pc, i, nsps, result, exit_code>>
out_vars == <<stdout, closes, diag>>
hist_vars == <<ops, last, created, destroyed, ndel, loop_entered>>
sig_vars == <<masked, sigpending, wpc, wsig, pipe>>
stdin_vars == <<stdin_buf, stdin_state, stdin_nonblock>>
child_vars == <<zombies>>
loop_vars == <<stdin_closed, stdin_pending, signal_pending, children_pending,
               ev>>
vars == <<args_vars, main_vars, out_vars, hist_vars, sig_vars, stdin_vars,
          child_vars, loop_vars>>


(***************************************************************************)
(* Signals (idle_loop.rs).                                                 *)
(***************************************************************************)
\* the members of nix's Signal enumeration, by name
AllSignals ==
    {"SIGHUP", "SIGINT", "SIGQUIT", "SIGILL", "SIGTRAP", "SIGABRT", "SIGBUS",
     "SIGFPE", "SIGKILL", "SIGUSR1", "SIGSEGV", "SIGUSR2", "SIGPIPE",
     "SIGALRM", "SIGTERM", "SIGCHLD", "SIGCONT", "SIGSTOP", "SIGTSTP",
     "SIGTTIN", "SIGTTOU", "SIGURG", "SIGXCPU", "SIGXFSZ", "SIGVTALRM",
     "SIGPROF", "SIGWINCH", "SIGIO", "SIGSYS"}

\* `sig as u32`: the number of a signal where the relay worker is compiled
\* (cfg(not(linux, android)), i.e. the BSD numbering)
SigNum(sig) ==
    CASE sig = "SIGHUP" -> 1    [] sig = "SIGINT" -> 2   [] sig = "SIGQUIT" -> 3
      [] sig = "SIGILL" -> 4    [] sig = "SIGTRAP" -> 5  [] sig = "SIGABRT" -> 6
      [] sig = "SIGFPE" -> 8    [] sig = "SIGKILL" -> 9  [] sig = "SIGBUS" -> 10
      [] sig = "SIGSEGV" -> 11  [] sig = "SIGSYS" -> 12  [] sig = "SIGPIPE" -> 13
      [] sig = "SIGALRM" -> 14  [] sig = "SIGTERM" -> 15 [] sig = "SIGURG" -> 16
      [] sig = "SIGSTOP" -> 17  [] sig = "SIGTSTP" -> 18 [] sig = "SIGCONT" -> 19
      [] sig = "SIGCHLD" -> 20  [] sig = "SIGTTIN" -> 21 [] sig = "SIGTTOU" -> 22
      [] sig = "SIGIO" -> 23    [] sig = "SIGXCPU" -> 24 [] sig = "SIGXFSZ" -> 25
      [] sig = "SIGVTALRM" -> 26 [] sig = "SIGPROF" -> 27
      [] sig = "SIGWINCH" -> 28 [] sig = "SIGUSR1" -> 30 [] sig = "SIGUSR2" -> 31

\* a variant from which SIGTERM is removed as well
sigset_without_sigterm ==
    AllSignals \ {"SIGKILL", "SIGSTOP",
                  "SIGTSTP", "SIGTTIN", "SIGTTOU",
                  "SIGURG", "SIGWINCH",
                  "SIGABRT", "SIGBUS", "SIGFPE", "SIGILL", "SIGQUIT",
                  "SIGSEGV", "SIGSYS", "SIGTRAP", "SIGTERM"}

\* SigSet::all() minus the fifteen signals the function removes
sigset_normal_termination ==
    AllSignals \ {"SIGKILL", "SIGSTOP",
                  "SIGTSTP", "SIGTTIN", "SIGTTOU",
                  "SIGURG", "SIGWINCH",
                  "SIGABRT", "SIGBUS", "SIGFPE", "SIGILL", "SIGQUIT",
                  "SIGSEGV", "SIGSYS", "SIGTRAP"}

\* a variant that keeps the low 4 bits
serialize_signal_nibble(sig) == SigNum(sig) % 16

\* the low 8 bits of the signal number; "crash" where the assertion fails
serialize_signal(sig) ==
    IF SigNum(sig) < TokenLimit THEN SigNum(sig) % TokenLimit ELSE -1

\* Signal::from_c_int(n).unwrap(); "PANIC" where no signal has that number
deserialize_signal(n) ==
    IF \E s \in AllSignals : SigNum(s) = n
    THEN CHOOSE s \in AllSignals : SigNum(s) = n
    ELSE "PANIC"

\* the terminating signals the environment sends
EnvSignals == {"SIGTERM"}

\* what a signal does to a process that neither blocks nor handles it
\* (signal.h): "term" is termination without a core dump
DefaultAction(sig) ==
    CASE sig \in {"SIGHUP", "SIGINT", "SIGKILL", "SIGUSR1", "SIGUSR2",
                  "SIGPIPE", "SIGALRM", "SIGTERM", "SIGVTALRM", "SIGPROF",
                  "SIGIO"} -> "term"
      [] sig \in {"SIGQUIT", "SIGILL", "SIGTRAP", "SIGABRT", "SIGBUS",
                  "SIGFPE", "SIGSEGV", "SIGSYS", "SIGXCPU", "SIGXFSZ"} -> "core"
      [] sig \in {"SIGSTOP", "SIGTSTP", "SIGTTIN", "SIGTTOU"} -> "stop"
      [] sig = "SIGCONT" -> "cont"
      [] sig \in {"SIGCHLD", "SIGURG", "SIGWINCH"} -> "ignore"

\* signals sent to the idle loop: one that terminates by default and one
\* that does not
LoopSignals == {"SIGTERM", "SIGCONT"}

(***************************************************************************)
(* Operations on the outside world, as the entries of `ops`.               *)
(*   op:  what is done      ns: the namespace name it is about             *)
(*   arg: a pid or a number of seconds, else 0                             *)
(*   via: "ip" or "true" (the executable spawned), "fs", "kill",           *)
(*        "sleep", or "stderr" for a line written to the error stream      *)
(*   ok:  whether it succeeded                                             *)
(*   out: the pids it printed (of `ip netns pids`), else {}                *)
(***************************************************************************)
Op(o, name, a, v, k) ==
    [op |-> o, ns |-> name, arg |-> a, via |-> v, ok |-> k, out |-> {}]

\* format!("{}_ns{}", prefix, i)
ns_name(prefix, k) == <<prefix, "_ns", k>>

\* internal_spawn + wait + check_child_status: the command line is written
\* to stderr when verbose, and dry-run spawns "true" in place of argv[0]
run(o, name, k) ==
    (IF verbose THEN <<Op(o, name, 0, "stderr", TRUE)>> ELSE <<>>)
    \o <<Op(o, name, 0, IF dryrun THEN "true" ELSE "ip", k)>>

\* a variant that drops the error without writing it
run_ignore_failure_silent(o, name, k) == run(o, name, k)

\* run, with the error written to stderr and dropped
run_ignore_failure(o, name, k) ==
    run(o, name, k)
    \o (IF k THEN <<>> ELSE <<Op("error", name, 0, "stderr", TRUE)>>)

\* a variant that makes the directory in dry-run mode too
NsConfDir_new_always(name, k) ==
    (IF verbose THEN <<Op("mkdir", name, 0, "stderr", TRUE)>> ELSE <<>>)
    \o <<Op("mkdir", name, 0, "fs", k)>>

\* NsConfDir::new
NsConfDir_new(name, k) ==
    (IF verbose THEN <<Op("mkdir", name, 0, "stderr", TRUE)>> ELSE <<>>)
    \o (IF ~dryrun THEN <<Op("mkdir", name, 0, "fs", k)>> ELSE <<>>)

\* Drop for NsConfDir
NsConfDir_drop(name, k) ==
    (IF verbose THEN <<Op("rmdir", name, 0, "stderr", TRUE)>> ELSE <<>>)
    \o (IF ~dryrun
        THEN <<Op("rmdir", name, 0, "fs", k)>>
             \o (IF k THEN <<>> ELSE <<Op("warning", name, 0, "stderr", TRUE)>>)
        ELSE <<>>)

\* the outcomes of the steps of one NetNs::new: whether each step succeeds
\* if it is reached (a step that is not reached is listed as succeeding)
NewOutcomes ==
    {o \in [mkdir : BOOLEAN, add : BOOLEAN, up : BOOLEAN,
            del : BOOLEAN, rmdir : BOOLEAN] :
        /\ ~o.mkdir => (o.add /\ o.up /\ o.del /\ o.rmdir /\ ~dryrun)
        /\ ~o.add => (o.up /\ o.del)
        /\ o.up => (o.del /\ (o.add => o.rmdir))}

\* a variant that leaves the namespace to the caller
NetNs_new_up_failed_nothing(name, o) == <<>>

\* what NetNs::new does when the interface-up step has failed
NetNs_new_up_failed(name, o) ==
    run_ignore_failure("del", name, o.del)

\* a variant that leaves the directory behind
NetNs_new_add_failed_nothing(name, o) == <<>>

\* what NetNs::new does when `ip netns add` has failed: try! returns, and
\* the local confdir goes out of scope
NetNs_new_add_failed(name, o) == NsConfDir_drop(name, o.rmdir)

\* NetNs::new: [ok, step, ops]; step is the step that failed (0: none)
NetNs_new(name, o) ==
    LET confdir == NsConfDir_new(name, o.mkdir)
        add == run("add", name, o.add)
        up == run("up", name, o.up)
    IN  IF ~dryrun /\ ~o.mkdir
        THEN [ok |-> FALSE, step |-> 1, ops |-> confdir]
        ELSE IF ~o.add
        THEN [ok |-> FALSE, step |-> 2,
              ops |-> confdir \o add \o NetNs_new_add_failed(name, o)]
        ELSE IF ~o.up
        THEN [ok |-> FALSE, step |-> 3,
              ops |-> confdir \o add \o up \o NetNs_new_up_failed(name, o)
                      \o NsConfDir_drop(name, o.rmdir)]
        ELSE [ok |-> TRUE, step |-> 0, ops |-> confdir \o add \o up]

\* a Vec<pid_t> as the ascending sequence of a set of pids
RECURSIVE PidSeq(_)
PidSeq(S) ==
    IF S = {} THEN <<>>
    ELSE LET m == CHOOSE x \in S : \A y \in S : x <= y
         IN  <<m>> \o PidSeq(S \ {m})

\* for pid in to_kill { kill(pid, sig) }: k is whether kill succeeds; its
\* error is ignored
RECURSIVE SignalAll(_, _, _, _)
SignalAll(o, name, ps, k) ==
    IF ps = <<>> THEN <<>>
    ELSE <<Op(o, name, Head(ps), "kill", k)>> \o SignalAll(o, name, Tail(ps), k)

\* run_get_output_pids: [ok, pids], the pids one of found; `true` prints
\* nothing
EnumOutcomes(found) ==
    {[ok |-> FALSE, pids |-> {}]} \cup
    {[ok |-> TRUE, pids |-> S] : S \in (IF dryrun THEN {{}} ELSE found)}

\* the processes are numbered in the order the first enumeration of a
\* namespace lists them; the second lists any survivors and newcomers
FirstFound == {1..k : k \in 0..MaxPid}

\* the outcomes of the steps of one Drop for NetNs (a second enumeration
\* that is not reached is listed as finding nothing)
DropOutcomes ==
    {o \in [first : EnumOutcomes(FirstFound),
            second : EnumOutcomes(SUBSET Pids),
            sig : BOOLEAN,
            down : BOOLEAN, del : BOOLEAN, rmdir : BOOLEAN] :
        /\ o.first.pids = {} => (o.second.ok /\ o.second.pids = {} /\ o.sig)
        /\ dryrun => o.rmdir}

\* run_get_output_pids: run, with the pids that were printed
run_get_output_pids(name, e) ==
    LET r == run("pids", name, e.ok)
    IN  SubSeq(r, 1, Len(r) - 1) \o <<[r[Len(r)] EXCEPT !.out = e.pids]>>

\* a variant that goes on with an empty list
NothingToKill_never(ps) == FALSE

\* if to_kill.len() == 0 { return Ok(()); }
NothingToKill(ps) == ps = {}

\* a variant that keeps the list of the first enumeration
Rebound_stale(old, new) == old

\* let to_kill = ...: the second binding shadows the first
Rebound(old, new) == new

\* NetNs::kill_processes_in_namespace: [ok, ops]
kill_processes_in_namespace(name, o) ==
    LET first == run_get_output_pids(name, o.first)
        second == run_get_output_pids(name, o.second)
        term == SignalAll("term", name, PidSeq(o.first.pids), o.sig)
        grace == <<Op("sleep", name, GraceSecs, "sleep", TRUE)>>
        to_kill == Rebound(o.first.pids, o.second.pids)
        kill == SignalAll("kill", name, PidSeq(to_kill), o.sig)
    IN  IF ~o.first.ok THEN [ok |-> FALSE, ops |-> first]
        ELSE IF NothingToKill(o.first.pids) THEN [ok |-> TRUE, ops |-> first]
        ELSE IF ~o.second.ok
        THEN [ok |-> FALSE, ops |-> first \o term \o grace \o second]
        ELSE IF NothingToKill(to_kill)
        THEN [ok |-> TRUE, ops |-> first \o term \o grace \o second]
        ELSE [ok |-> TRUE, ops |-> first \o term \o grace \o second \o kill]

\* a variant in which the field _confdir is dropped before the body of
\* Drop for NetNs runs
NetNs_drop_confdir_first(name, o) ==
    LET k == kill_processes_in_namespace(name, o)
    IN  NsConfDir_drop(name, o.rmdir)
        \o k.ops
        \o (IF k.ok THEN <<>> ELSE <<Op("error", name, 0, "stderr", TRUE)>>)
        \o run_ignore_failure("down", name, o.down)
        \o run_ignore_failure("del", name, o.del)

\* Drop for NetNs, then the drop of its field _confdir
NetNs_drop(name, o) ==
    LET k == kill_processes_in_namespace(name, o)
    IN  k.ops
        \o (IF k.ok THEN <<>> ELSE <<Op("error", name, 0, "stderr", TRUE)>>)
        \o run_ignore_failure("down", name, o.down)
        \o run_ignore_failure("del", name, o.del)
        \o NsConfDir_drop(name, o.rmdir)

\* the number of entries of s that satisfy: op = o and via is an executable
CountCmd(s, o, name) ==
    Cardinality({k \in 1..Len(s) : s[k].op = o /\ s[k].ns = name
                                   /\ s[k].via \in {"ip", "true"}})

\* the element of a Vec that its drop destroys next: a Vec drops its
\* elements as a slice, first to last
NextToDrop(v) == 1

\* a variant that leaves the element in the Vec
RemoveAt_keep(v, k) == v

\* v without its k-th element
RemoveAt(v, k) == SubSeq(v, 1, k - 1) \o SubSeq(v, k + 1, Len(v))


(***************************************************************************)
(* The environment of the subprocesses (prepare_child_env, internal_spawn). *)
(* A key is a sequence of characters; a value is a string.                 *)
(***************************************************************************)
TERM == <<"T", "E", "R", "M">>
TZ == <<"T", "Z">>
LANG == <<"L", "A", "N", "G">>
LANGUAGE == <<"L", "A", "N", "G", "U", "A", "G", "E">>
LC_ALL == <<"L", "C", "_", "A", "L", "L">>
LC == <<"L", "C">>
PATH == <<"P", "A", "T", "H">>
HOME == <<"H", "O", "M", "E">>
LC_prefix == <<"L", "C", "_">>
FixedPath == "/usr/local/bin:/usr/bin:/bin:/usr/local/sbin:/usr/sbin:/sbin"

\* the keys and values the inherited environment is made of
EnvKeys == {TERM, TZ, LANG, LANGUAGE, LC_ALL, LC, PATH, HOME}
EnvValues == {"a", "b"}
Environs ==
    UNION {[1..n -> EnvKeys \X EnvValues] : n \in 0..MaxEnv}

\* the byte of a character of a key
Ord(c) ==
    CASE c = "A" -> 65 [] c = "C" -> 67 [] c = "E" -> 69 [] c = "G" -> 71
      [] c = "H" -> 72 [] c = "L" -> 76 [] c = "M" -> 77 [] c = "N" -> 78
      [] c = "O" -> 79 [] c = "P" -> 80 [] c = "R" -> 82 [] c = "T" -> 84
      [] c = "U" -> 85 [] c = "Z" -> 90 [] c = "_" -> 95

\* the place of a value in the byte order of strings: "/..." < "a" < "b"
ValOrd(v) == CASE v = FixedPath -> 0 [] v = "a" -> 1 [] v = "b" -> 2

\* str::starts_with
starts_with(k, prefix) ==
    Len(k) >= Len(prefix) /\ SubSeq(k, 1, Len(prefix)) = prefix

\* the order of String on keys: byte by byte, a proper prefix first
RECURSIVE KeyLess(_, _)
KeyLess(a, b) ==
    IF b = <<>> THEN FALSE
    ELSE IF a = <<>> THEN TRUE
    ELSE IF Ord(Head(a)) # Ord(Head(b)) THEN Ord(Head(a)) < Ord(Head(b))
    ELSE KeyLess(Tail(a), Tail(b))

\* the order of (String, String): by key, then by value
PairLeq(p, q) ==
    KeyLess(p[1], q[1]) \/ (p[1] = q[1] /\ ValOrd(p[2]) <= ValOrd(q[2]))

\* Vec::sort
RECURSIVE Insert(_, _)
Insert(x, s) ==
    IF s = <<>> THEN <<x>>
    ELSE IF PairLeq(x, Head(s)) THEN <<x>> \o s
    ELSE <<Head(s)>> \o Insert(x, Tail(s))

RECURSIVE Sort(_)
Sort(s) == IF s = <<>> THEN <<>> ELSE Insert(Head(s), Sort(Tail(s)))

\* a variant that lets every variable through
Forwarded_all(k) == TRUE

\* the filter of prepare_child_env
Forwarded(k) ==
    k = TERM \/ k = TZ \/ k = LANG \/ starts_with(k, LC_prefix)

\* prepare_child_env: filter, push PATH, sort
prepare_child_env(e) ==
    LET kept(p) == Forwarded(p[1])
    IN  Sort(Append(SelectSeq(e, kept), <<PATH, FixedPath>>))

\* Command::env: insert or update the mapping of k
CommandEnv(m, k, v) == {p \in m : p[1] # k} \cup {<<k, v>>}

\* internal_spawn: cmd.env_clear(), then cmd.env(k, v) for each pair
RECURSIVE SetAll(_, _)
SetAll(m, list) ==
    IF list = <<>> THEN m
    ELSE SetAll(CommandEnv(m, Head(list)[1], Head(list)[2]), Tail(list))

internal_spawn_env(list) == SetAll({}, list)

(***************************************************************************)
(* One subprocess (subprocess.rs, err.rs).                                 *)
(*   a wait status is [kind, code, sig]: "exited" with a code, or          *)
(*   "signaled" with the number of the signal; "none": no status           *)
(*   a result is [type, how, code, sig, text]: type "Ok", or the variant   *)
(*   of HLError; how/code/sig are what the status string is formatted      *)
(*   from; text is the command line, or the detail of an IOError           *)
(***************************************************************************)
NoStatus == [kind |-> "none", code |-> -1, sig |-> 0]
NoRet == [type |-> "none", how |-> "", code |-> -1, sig |-> "", text |-> <<>>]
NoSub == [how |-> "", argv |-> <<>>, exe |-> "", args |-> <<>>, shown |-> <<>>,
          spawns |-> 0, st |-> NoStatus, ret |-> NoRet]

\* the wait statuses of a child: the exit codes 0..MaxCode, and death by
\* SIGKILL, by SIGTERM, or by a signal nix has no name for
ExitCodes == 0..MaxCode
KillNumbers == {9, 15, 64}
Statuses ==
    {[kind |-> "exited", code |-> c, sig |-> 0] : c \in ExitCodes}
    \cup {[kind |-> "signaled", code |-> -1, sig |-> n] : n \in KillNumbers}

\* command lines of tunnel-ns
Argvs ==
    {<<"ip", "netns", "add", "x_ns0">>,
     <<"ip", "netns", "pids", "x_ns0">>,
     <<"ip", "netns", "exec", "x_ns0", "ip", "link", "set", "dev", "lo", "up">>}

\* argv.join(" ")
RECURSIVE join(_)
join(argv) ==
    IF Len(argv) <= 1 THEN argv
    ELSE <<Head(argv), " ">> \o join(Tail(argv))

\* a variant that takes every exit as a success
success_any_exit(st) == st.kind = "exited"

\* ExitStatus::success
success(st) == st.kind = "exited" /\ st.code = 0

\* Signal::from_c_int
from_c_int(n) ==
    IF \E sg \in AllSignals : SigNum(sg) = n
    THEN CHOOSE sg \in AllSignals : SigNum(sg) = n
    ELSE "EINVAL"

\* map_unsuc_child: "exited unsuccessfully (code {})", "killed by {:?}" or
\* "killed by signal {}", with cmdline.join(" ")
map_unsuc_child(st, cmdline) ==
    LET status ==
          IF st.kind = "exited"
          THEN [how |-> "code", code |-> st.code, sig |-> ""]
          ELSE IF from_c_int(st.sig) # "EINVAL"
          THEN [how |-> "sig", code |-> -1, sig |-> from_c_int(st.sig)]
          ELSE [how |-> "signo", code |-> st.sig, sig |-> ""]
    IN  [type |-> "UnsuccessfulChild", how |-> status.how,
         code |-> status.code, sig |-> status.sig, text |-> join(cmdline)]

\* map_io_err, with the detail format!("{} {}", what, argv[0])
map_io_err(what, exe) ==
    [type |-> "IOError", how |-> "", code |-> -1, sig |-> "",
     text |-> <<what, " ", exe>>]

\* check_child_status
check_child_status(argv, st) ==
    IF success(st)
    THEN [NoRet EXCEPT !.type = "Ok"]
    ELSE map_unsuc_child(st, argv)

(***************************************************************************)
(* Initial state: the process has been started and nothing has run.        *)
(***************************************************************************)
NoEvent == [type |-> "None", sig |-> "", pid |-> 0]
NoCall == [kind |-> "none", name |-> <<>>, step |-> 0]
Names == {ns_name(Prefix, k) : k \in 0..MaxN}

\* what holds of every initial state, whatever the command line
InitCommon ==
    /\ child_env = <<>> /\ spawn_env = {}
    /\ i = 0 /\ nsps = <<>> /\ result = "none" /\ exit_code = -1
    /\ stdout = <<>> /\ closes = 0 /\ diag = FALSE
    /\ ops = <<>> /\ last = NoCall /\ created = <<>> /\ destroyed = <<>>
    /\ ndel = [n \in Names |-> 0]
    /\ sigpending = {} /\ wsig = "" /\ pipe = <<>>
    /\ stdin_buf = 0 /\ stdin_state = "open"
    /\ stdin_nonblock \in BOOLEAN
    /\ zombies = {}
    /\ stdin_closed = FALSE /\ stdin_pending = FALSE
    /\ signal_pending = FALSE /\ children_pending = FALSE
    /\ ev = NoEvent

\* tunnel-ns PREFIX N [-n] [-v]: verbose is set by either flag
Init ==
    /\ nnsp \in RequestedCounts
    /\ environ = <<>> /\ sub = NoSub
    /\ dryrun \in BOOLEAN
    /\ verbose \in {dryrun, TRUE}
    /\ pc = "parse" /\ loop_entered = FALSE
    /\ masked = FALSE /\ wpc = "off"
    /\ InitCommon

\* The main thread reads the signal pipe, fd 0 and the state of its
\* children in next_event and nowhere else.  Once it has left the idle loop
\* (or has given up before it), what the worker and the environment do has
\* no effect on it: the model follows them up to that point only, and then
\* gives their variables the values below.
Watched == pc \notin {"unwind", "teardown", "exited", "killed"}
Unwatch ==
    /\ sigpending' = {} /\ wsig' = "" /\ pipe' = <<>>
    /\ wpc' = IF wpc = "off" THEN "off" ELSE "wait"
    /\ stdin_buf' = 0 /\ stdin_state' = "open" /\ stdin_nonblock' = FALSE
    /\ zombies' = {}
    /\ stdin_closed' = FALSE
    /\ stdin_pending' = FALSE /\ signal_pending' = FALSE
    /\ children_pending' = FALSE
    /\ UNCHANGED masked

(***************************************************************************)
(* The main thread of tunnel-ns.                                           *)
(***************************************************************************)
\* a variant that reports failure whatever the result
ExitStatus_one(res) == 1

\* the exit status main() passes to process::exit
ExitStatus(res) == IF res = "ok" THEN 0 ELSE 1

\* a variant that accepts every count
OutOfRange_never(n) == FALSE

\* if nnsp < 1 || nnsp > 1024
OutOfRange(n) == n < MinNamespaces \/ n > MaxNamespaces

\* parse_cmdline: a count outside 1..1024 ends the process through clap
ParseCmdline ==
    /\ pc = "parse"
    /\ IF OutOfRange(nnsp)
       THEN /\ pc' = "exited"
            /\ exit_code' = 1
       ELSE /\ pc' = "prepare_signals"
            /\ UNCHANGED exit_code
    /\ UNCHANGED <<args_vars, i, nsps, result, out_vars, hist_vars, sig_vars,
                   stdin_vars, child_vars, loop_vars>>

\* prepare_signals: block the set, then pipe(), make_nonblocking and the
\* spawn of the worker; okay = FALSE is a failure of pipe() or fcntl()
PrepareSignals ==
    /\ pc = "prepare_signals"
    /\ masked' = TRUE
    /\ \E okay \in BOOLEAN :
          IF okay
          THEN /\ wpc' = "wait"
               /\ pc' = "create"
               /\ UNCHANGED result
          ELSE /\ result' = "err"
               /\ pc' = "unwind"
               /\ UNCHANGED wpc
    /\ UNCHANGED <<args_vars, i, nsps, exit_code, out_vars, hist_vars,
                   sigpending, wsig, pipe,
                   stdin_vars, child_vars, loop_vars>>

\* a variant that stops one iteration early
LoopDone_early(k, n) == k + 1 >= n

\* for i in 0..nnsp: whether the loop of create_namespaces is over
LoopDone(k, n) == k >= n

\* every child that was spawned and waited for leaves a SIGCHLD behind
ChildSignals(s) ==
    IF \E k \in 1..Len(s) : s[k].via \in {"ip", "true"} THEN {"SIGCHLD"} ELSE {}

\* a variant that writes nothing
println_nothing(line) == stdout

\* println!: fd 1 is the original output stream until close_stdout
println(line) == IF closes = 0 THEN Append(stdout, line) ELSE stdout

\* a variant that leaves the process at once
AfterSetupError_exit == "exited"

\* where control goes when try! returns the error of NetNs::new: out of
\* create_namespaces and inner_main, whose locals go out of scope
AfterSetupError == "unwind"

\* one iteration of the loop of create_namespaces
CreateNamespace ==
    /\ pc = "create"
    /\ ~LoopDone(i, nnsp)
    /\ \E o \in NewOutcomes :
          LET name == ns_name(Prefix, i)
              r == NetNs_new(name, o)
          IN  /\ ops' = r.ops
              /\ last' = [kind |-> "new", name |-> name, step |-> r.step]
              /\ ndel' = [ndel EXCEPT ![name] = @ + CountCmd(r.ops, "del", name)]
              /\ IF r.ok
                 THEN /\ nsps' = Append(nsps, name)
                      /\ created' = Append(created, name)
                      /\ stdout' = println(name)
                      /\ i' = i + 1
                      /\ sigpending' = sigpending \cup ChildSignals(r.ops)
                      /\ UNCHANGED <<pc, result, masked, wpc, wsig, pipe,
                                     stdin_vars, child_vars, loop_vars>>
                 ELSE /\ result' = "err"
                      /\ pc' = AfterSetupError
                      /\ Unwatch
                      /\ UNCHANGED <<nsps, created, stdout, i, ev>>
    /\ UNCHANGED <<args_vars, exit_code, closes, diag, destroyed, loop_entered>>

\* close_stdout, and the return of create_namespaces
CloseStdout ==
    /\ pc = "create"
    /\ LoopDone(i, nnsp)
    /\ closes' = closes + 1
    /\ pc' = "idle_new"
    /\ UNCHANGED <<args_vars, i, nsps, result, exit_code, stdout, diag,
                   hist_vars, sig_vars, stdin_vars, child_vars, loop_vars>>

\* IdleLoop::new
IdleLoopNew ==
    /\ pc = "idle_new"
    /\ stdin_closed' = FALSE /\ stdin_pending' = FALSE
    /\ signal_pending' = FALSE /\ children_pending' = FALSE
    /\ loop_entered' = TRUE
    /\ pc' = "ne_top"
    /\ UNCHANGED <<args_vars, i, nsps, result, exit_code, out_vars,
                   ops, last, created, destroyed, ndel,
                   sig_vars, stdin_vars, child_vars, ev>>

\* a variant in which every event ends the loop
Breaks_always(e) == TRUE

\* the arms of the match of inner_main that end in `break`
Breaks(e) == e.type \in {"StdinClosed", "TermSignal"}

\* the match of inner_main on the event: StdinClosed and TermSignal break
\* out of the loop, ChildExit reaps the child and goes on
MainDispatch ==
    /\ pc = "ret"
    /\ IF Breaks(ev)
       THEN /\ result' = "ok"
            /\ pc' = "teardown"
            /\ Unwatch
            /\ UNCHANGED ev
       ELSE /\ zombies' = zombies \ {ev.pid}
            /\ ev' = NoEvent
            /\ pc' = "ne_top"
            /\ UNCHANGED <<result, sig_vars, stdin_vars,
                           stdin_closed, stdin_pending, signal_pending,
                           children_pending>>
    /\ UNCHANGED <<args_vars, i, nsps, exit_code, out_vars, hist_vars>>

\* the Vec of namespaces goes out of scope: one element is dropped
DropNsps ==
    /\ pc \in {"unwind", "teardown"}
    /\ nsps # <<>>
    /\ \E o \in DropOutcomes :
          LET k == NextToDrop(nsps)
              name == nsps[k]
              d == NetNs_drop(name, o)
          IN  /\ ops' = d
              /\ last' = [kind |-> "drop", name |-> name, step |-> 0]
              /\ ndel' = [ndel EXCEPT ![name] = @ + CountCmd(d, "del", name)]
              /\ destroyed' = Append(destroyed, name)
              /\ nsps' = RemoveAt(nsps, k)
    /\ UNCHANGED <<args_vars, pc, i, result, exit_code, out_vars, created,
                   loop_entered, sig_vars, stdin_vars, child_vars, loop_vars>>

\* main: inner_main has returned; the error, if any, is printed, and the
\* process exits
MainExit ==
    /\ pc \in {"unwind", "teardown"}
    /\ nsps = <<>>
    /\ diag' = (result = "err")
    /\ exit_code' = ExitStatus(result)
    /\ pc' = "exited"
    /\ UNCHANGED <<args_vars, i, nsps, result, stdout, closes, hist_vars,
                   sig_vars, stdin_vars, child_vars, loop_vars>>

(***************************************************************************)
(* IdleLoop::next_event, one system call at a time.                        *)
(***************************************************************************)
StdinClosed == [type |-> "StdinClosed", sig |-> "", pid |-> 0]
TermSignal(sig) == [type |-> "TermSignal", sig |-> sig, pid |-> 0]
ChildExit(pid) == [type |-> "ChildExit", sig |-> "", pid |-> pid]

\* return e: next_event hands e to its caller
Return(e) ==
    /\ ev' = e
    /\ pc' = "ret"

\* poll(2): what is readable
StdinReady == stdin_buf > 0 \/ stdin_state # "open"

\* a variant that reports the signal pipe only when fd 0 is not readable
SignalPipeReady_alone == pipe # <<>> /\ ~StdinReady

SignalPipeReady == pipe # <<>>

\* a variant that waits on fd 0 always
PollsStdin_always == TRUE

\* IdleLoop::poll: whether fd 0 is one of the descriptors waited on
PollsStdin == ~stdin_closed

\* the top of the loop of next_event: wait only when nothing is pending
NextEventTop ==
    /\ pc = "ne_top"
    /\ pc' = IF ~stdin_pending /\ ~signal_pending /\ ~children_pending
             THEN "poll" ELSE "chk_stdin"
    /\ UNCHANGED <<args_vars, i, nsps, result, exit_code, out_vars, hist_vars,
                   sig_vars, stdin_vars, child_vars, loop_vars>>

\* IdleLoop::poll: blocks, without a timeout, until a descriptor is ready
Poll ==
    /\ pc = "poll"
    /\ SignalPipeReady \/ (PollsStdin /\ StdinReady)
    /\ signal_pending' = (signal_pending \/ SignalPipeReady)
    /\ stdin_pending' = (stdin_pending \/ (PollsStdin /\ StdinReady))
    /\ pc' = "chk_stdin"
    /\ UNCHANGED <<args_vars, i, nsps, result, exit_code, out_vars, hist_vars,
                   sig_vars, stdin_vars, child_vars, stdin_closed,
                   children_pending, ev>>

\* if self.stdin_pending { self.stdin_pending = false; consume_stdin() ...
CheckStdin ==
    /\ pc = "chk_stdin"
    /\ IF stdin_pending
       THEN /\ stdin_pending' = FALSE
            /\ pc' = "consume"
       ELSE /\ pc' = "chk_signal"
            /\ UNCHANGED stdin_pending
    /\ UNCHANGED <<args_vars, i, nsps, result, exit_code, out_vars, hist_vars,
                   sig_vars, stdin_vars, child_vars, stdin_closed,
                   signal_pending, children_pending, ev>>

\* the number of bytes one read of fd 0 takes
ReadLen == IF stdin_buf < ScratchLen THEN stdin_buf ELSE ScratchLen

\* a read of fd 0 that finds no data on an open descriptor waits for some
\* unless O_NONBLOCK is set; nothing in the program sets it on fd 0
StdinReadBlocks ==
    stdin_buf = 0 /\ stdin_state = "open" /\ ~stdin_nonblock

\* what stdin.read(&mut scratch) returns when it returns: "err" (an error
\* other than would-block), "data" (Ok(n), n > 0), "eof" (Ok(0)) or
\* "wouldblock"
stdin_read ==
    IF stdin_state = "err" THEN "err"
    ELSE IF stdin_buf > 0 THEN "data"
    ELSE IF stdin_state = "eof" THEN "eof"
    ELSE "wouldblock"

\* a variant that takes only Ok(0) as the end of the input
TakenAsClosed_eof(r) == r = "eof"

\* the results after which next_event reports StdinClosed: Ok(true) and
\* Err(e) of consume_stdin
TakenAsClosed(r) == r \in {"eof", "err"}

\* one stdin.read(&mut scratch) of the loop of consume_stdin, and what
\* next_event does with the result of consume_stdin
ConsumeStdin ==
    /\ pc = "consume"
    /\ ~StdinReadBlocks
    /\ IF TakenAsClosed(stdin_read)
       THEN \* Err(e), or Ok(0): the input is taken to be closed
            /\ stdin_closed' = TRUE
            /\ Return(StdinClosed)
            /\ UNCHANGED stdin_buf
       ELSE IF stdin_buf > 0
       THEN \* Ok(_): the bytes are discarded, read again
            /\ stdin_buf' = stdin_buf - ReadLen
            /\ UNCHANGED <<pc, stdin_closed, ev>>
       ELSE \* WouldBlock: Ok(false)
            /\ pc' = "chk_signal"
            /\ UNCHANGED <<stdin_buf, stdin_closed, ev>>
    /\ UNCHANGED <<args_vars, i, nsps, result, exit_code, out_vars, hist_vars,
                   sig_vars, stdin_state, stdin_nonblock,
                   child_vars, stdin_pending, signal_pending, children_pending>>

\* a variant that leaves the token where it is
next_signal_peek(p) ==
    IF p = <<>>
    THEN [sig |-> "None", rest |-> p]
    ELSE [sig |-> deserialize_signal(Head(p)), rest |-> p]

\* next_signal: one non-blocking read of one byte of the signal pipe;
\* [sig, rest]: the signal read ("None": nothing to read), the pipe after
next_signal(p) ==
    IF p = <<>>
    THEN [sig |-> "None", rest |-> p]
    ELSE [sig |-> deserialize_signal(Head(p)), rest |-> Tail(p)]

\* if self.signal_pending { match next_signal(self.signal_pipe) ...
CheckSignal ==
    /\ pc = "chk_signal"
    /\ IF ~signal_pending
       THEN /\ pc' = "chk_child"
            /\ UNCHANGED <<pipe, signal_pending, children_pending, ev>>
       ELSE LET r == next_signal(pipe)
            IN  /\ pipe' = r.rest
                /\ IF r.sig = "None"
                   THEN /\ signal_pending' = FALSE
                        /\ pc' = "chk_child"
                        /\ UNCHANGED <<children_pending, ev>>
                   ELSE IF r.sig = "SIGCHLD"
                   THEN /\ children_pending' = TRUE
                        /\ pc' = "chk_child"
                        /\ UNCHANGED <<signal_pending, ev>>
                   ELSE /\ Return(TermSignal(r.sig))
                        /\ UNCHANGED <<signal_pending, children_pending>>
    /\ UNCHANGED <<args_vars, i, nsps, result, exit_code, out_vars, hist_vars,
                   masked, sigpending, wpc, wsig,
                   stdin_vars, child_vars, stdin_closed, stdin_pending>>

\* a variant that never finds an exited child
poll_next_child_none == {}

\* a variant that names a child whether or not one has exited
poll_next_child_any == ChildPids

\* poll_next_child: waitid(P_ALL, WEXITED|WNOHANG|WNOWAIT) names an exited
\* child and leaves it to be reaped; the empty set stands for None
poll_next_child == zombies

\* if self.children_pending { match poll_next_child() ...
CheckChild ==
    /\ pc = "chk_child"
    /\ IF ~children_pending
       THEN /\ pc' = "ne_top"
            /\ UNCHANGED <<children_pending, ev>>
       ELSE IF poll_next_child = {}
       THEN /\ children_pending' = FALSE
            /\ pc' = "ne_top"
            /\ UNCHANGED ev
       ELSE \E pid \in poll_next_child :
               /\ Return(ChildExit(pid))
               /\ UNCHANGED children_pending
    /\ UNCHANGED <<args_vars, i, nsps, result, exit_code, out_vars, hist_vars,
                   sig_vars, stdin_vars, child_vars, stdin_closed,
                   stdin_pending, signal_pending>>

(***************************************************************************)
(* The relay worker of start_signal_worker.                                *)
(***************************************************************************)
\* sigs.wait(): take one pending signal of the blocked set
WorkerWait ==
    /\ Watched
    /\ wpc = "wait"
    /\ \E sig \in sigpending \cap sigset_normal_termination :
          /\ wsig' = sig
          /\ sigpending' = sigpending \ {sig}
    /\ wpc' = "write"
    /\ UNCHANGED <<args_vars, main_vars, out_vars, hist_vars, masked,
                   pipe, stdin_vars, child_vars, loop_vars>>

\* a variant that writes nothing
write_nothing(p, tok) == p

\* write(wr, &sig) on a pipe: the byte goes to the end of what is in it
write(p, tok) == Append(p, tok)

\* write(wr, &sig): one token; the write waits while the pipe is full
WorkerWrite ==
    /\ Watched
    /\ wpc = "write"
    /\ Len(pipe) < PipeCap
    /\ pipe' = write(pipe, serialize_signal(wsig))
    /\ wsig' = ""
    /\ wpc' = "wait"
    /\ UNCHANGED <<args_vars, main_vars, out_vars, hist_vars, masked,
                   sigpending, stdin_vars, child_vars, loop_vars>>

(***************************************************************************)
(* The environment.                                                        *)
(***************************************************************************)
\* a terminating signal is sent to the process: it stays pending when it is
\* blocked (a signal that is pending already is not queued a second
\* time), and ends the process (its default action) when it is not
Deliver ==
    /\ Watched
    /\ \E sig \in EnvSignals \ sigpending :
          IF masked /\ sig \in sigset_normal_termination
          THEN /\ sigpending' = sigpending \cup {sig}
               /\ UNCHANGED pc
          ELSE /\ pc' = "killed"
               /\ UNCHANGED sigpending
    /\ UNCHANGED <<args_vars, i, nsps, result, exit_code, out_vars, hist_vars,
                   masked, wpc, wsig, pipe, stdin_vars, child_vars,
                   loop_vars>>

\* any of LoopSignals is sent to the process: a blocked one stays pending,
\* another one takes its default action
DeliverAny ==
    /\ Watched
    /\ \E sig \in LoopSignals \ sigpending :
          IF masked /\ sig \in sigset_normal_termination
          THEN /\ sigpending' = sigpending \cup {sig}
               /\ UNCHANGED pc
          ELSE /\ pc' = IF DefaultAction(sig) \in {"term", "core"}
                        THEN "killed" ELSE pc
               /\ UNCHANGED sigpending
    /\ UNCHANGED <<args_vars, i, nsps, result, exit_code, out_vars, hist_vars,
                   masked, wpc, wsig, pipe, stdin_vars, child_vars,
                   loop_vars>>

\* an asynchronous child exits; SIGCHLD is discarded unless it is blocked
ChildExits ==
    /\ Watched
    /\ \E pid \in ChildPids \ zombies : zombies' = zombies \cup {pid}
    /\ sigpending' = IF masked THEN sigpending \cup {"SIGCHLD"} ELSE sigpending
    /\ UNCHANGED <<args_vars, main_vars, out_vars, hist_vars, masked,
                   wpc, wsig, pipe, stdin_vars, loop_vars>>

\* the writer of the controlling input writes a byte, once the last one
\* has been read
WriteStdin ==
    /\ Watched
    /\ stdin_state = "open"
    /\ stdin_buf = 0
    /\ stdin_buf' = stdin_buf + 1
    /\ UNCHANGED <<args_vars, main_vars, out_vars, hist_vars, sig_vars,
                   stdin_state, stdin_nonblock, child_vars, loop_vars>>

\* the writer closes the controlling input
CloseStdin ==
    /\ Watched
    /\ stdin_state = "open"
    /\ stdin_state' = "eof"
    /\ UNCHANGED <<args_vars, main_vars, out_vars, hist_vars, sig_vars,
                   stdin_buf, stdin_nonblock, child_vars, loop_vars>>

\* the controlling input breaks: reads of it fail from now on
BreakStdin ==
    /\ Watched
    /\ stdin_state = "open"
    /\ stdin_state' = "err"
    /\ UNCHANGED <<args_vars, main_vars, out_vars, hist_vars, sig_vars,
                   stdin_buf, stdin_nonblock, child_vars, loop_vars>>

(***************************************************************************)
(* The specifications.                                                     *)
(***************************************************************************)
NextEvent == NextEventTop \/ Poll \/ CheckStdin \/ ConsumeStdin \/ CheckSignal
             \/ CheckChild
MainNext == ParseCmdline \/ PrepareSignals \/ CreateNamespace \/ CloseStdout
            \/ IdleLoopNew \/ NextEvent \/ MainDispatch \/ DropNsps \/ MainExit
WorkerNext == WorkerWait \/ WorkerWrite
EnvNext == Deliver \/ ChildExits \/ WriteStdin \/ CloseStdin \/ BreakStdin

\* tunnel-ns, from its start to its exit
Next == MainNext \/ WorkerNext \/ EnvNext
Spec == Init /\ [][Next]_vars

\* IdleLoop under a caller that asks for every next event and reaps the
\* child of every ChildExit: the state after prepare_signals and
\* IdleLoop::new, with no namespace made
LoopInit ==
    /\ nnsp = 0 /\ dryrun = FALSE /\ verbose = FALSE
    /\ environ = <<>> /\ sub = NoSub
    /\ pc = "ne_top" /\ loop_entered = TRUE
    /\ masked = TRUE /\ wpc = "wait"
    /\ InitCommon

\* impl Iterator for IdleLoop, and a caller's waitpid on ChildExit
CallerNext ==
    /\ pc = "ret"
    /\ zombies' = IF ev.type = "ChildExit" THEN zombies \ {ev.pid} ELSE zombies
    /\ ev' = NoEvent
    /\ pc' = "ne_top"
    /\ UNCHANGED <<args_vars, i, nsps, result, exit_code, out_vars, hist_vars,
                   sig_vars, stdin_vars, stdin_closed, stdin_pending,
                   signal_pending, children_pending>>

LoopMain == NextEvent \/ CallerNext
LoopNext == LoopMain \/ WorkerNext \/ EnvNext
LoopSpec == LoopInit /\ [][LoopNext]_vars

\* the main thread and the worker each run whenever they are not blocked
LoopFairSpec == LoopSpec /\ WF_vars(LoopMain) /\ WF_vars(WorkerNext)

\* IdleLoop under the same caller, sent any of LoopSignals
SignalNext == LoopMain \/ WorkerNext \/ ChildExits \/ WriteStdin
                  \/ CloseStdin \/ BreakStdin \/ DeliverAny
SignalSpec == LoopInit /\ [][SignalNext]_vars

\* one signal of the blocked set is sent while the loop waits in poll and
\* no other signal is on its way
DeliverBlocked ==
    /\ pc = "poll" /\ wpc = "wait"
    /\ sigpending = {} /\ pipe = <<>>
    /\ \E sig \in sigset_normal_termination : sigpending' = {sig}
    /\ UNCHANGED <<args_vars, main_vars, out_vars, hist_vars, masked,
                   wpc, wsig, pipe, stdin_vars, child_vars, loop_vars>>

\* the relay of each signal of the blocked set, one at a time, from the
\* worker through the pipe to next_event
RelayNext == NextEventTop \/ Poll \/ CheckStdin \/ CheckSignal \/ CheckChild
                 \/ CallerNext \/ WorkerNext \/ DeliverBlocked
RelaySpec == LoopInit /\ [][RelayNext]_vars

\* the part of the state a call of run or run_get_output leaves alone
run_unchanged ==
    <<nnsp, dryrun, verbose, environ, child_env, spawn_env, i, nsps, result,
      exit_code, out_vars, hist_vars, sig_vars, stdin_vars, child_vars,
      loop_vars>>

\* one call of run or of run_get_output, for every command line, either
\* flag and every fate of the child
RunInit ==
    /\ \E h \in {"run", "run_get_output"}, a \in Argvs :
          sub = [NoSub EXCEPT !.how = h, !.argv = a]
    /\ environ = <<>>
    /\ nnsp = MaxN /\ dryrun \in BOOLEAN /\ verbose \in BOOLEAN
    /\ pc = "run_spawn" /\ loop_entered = FALSE
    /\ masked = TRUE /\ wpc = "wait"
    /\ InitCommon

\* internal_spawn, and the map_err on its result: the command line is
\* shown when verbose; dry-run spawns "true" with the same arguments
RunSpawn ==
    /\ pc = "run_spawn"
    /\ \E okay \in BOOLEAN :
          /\ sub' = [sub EXCEPT
                       !.shown = IF verbose THEN join(sub.argv) ELSE <<>>,
                       !.exe = IF dryrun THEN "true" ELSE sub.argv[1],
                       !.args = Tail(sub.argv),
                       !.spawns = @ + 1,
                       !.ret = IF okay THEN @
                               ELSE map_io_err("spawn", sub.argv[1])]
          /\ pc' = IF okay THEN "run_wait" ELSE "run_done"
    /\ UNCHANGED run_unchanged

\* child.wait() / child.wait_with_output(), and the map_err on its result
RunWait ==
    /\ pc = "run_wait"
    /\ \/ /\ sub' = [sub EXCEPT
                        !.ret = map_io_err(IF sub.how = "run" THEN "wait for"
                                           ELSE "reading from", sub.argv[1])]
          /\ pc' = "run_done"
       \/ \E st \in Statuses :
             /\ sub' = [sub EXCEPT !.st = st]
             /\ pc' = "run_check"
    /\ UNCHANGED run_unchanged

\* check_child_status(argv, &status), and the return of the call
RunCheck ==
    /\ pc = "run_check"
    /\ sub' = [sub EXCEPT !.ret = check_child_status(sub.argv, sub.st)]
    /\ pc' = "run_done"
    /\ UNCHANGED run_unchanged

RunNext == RunSpawn \/ RunWait \/ RunCheck
RunSpec == RunInit /\ [][RunNext]_vars

\* the making of the subprocess environment, for every inherited
\* environment: the rest of the program has no part in it
EnvInit ==
    /\ environ \in Environs /\ sub = NoSub
    /\ nnsp = MaxN /\ dryrun = FALSE /\ verbose = FALSE
    /\ pc = "prepare_env" /\ loop_entered = FALSE
    /\ masked = TRUE /\ wpc = "wait"
    /\ InitCommon

\* inner_main: env: prepare_child_env()
PrepareChildEnv ==
    /\ pc = "prepare_env"
    /\ child_env' = prepare_child_env(environ)
    /\ pc' = "spawn"
    /\ UNCHANGED <<nnsp, dryrun, verbose, environ, spawn_env, sub, i, nsps, result,
                   exit_code, out_vars, hist_vars, sig_vars, stdin_vars,
                   child_vars, loop_vars>>

\* internal_spawn: the environment of the command
InternalSpawn ==
    /\ pc = "spawn"
    /\ spawn_env' = internal_spawn_env(child_env)
    /\ pc' = "spawned"
    /\ UNCHANGED <<nnsp, dryrun, verbose, environ, child_env, sub, i, nsps, result,
                   exit_code, out_vars, hist_vars, sig_vars, stdin_vars,
                   child_vars, loop_vars>>

EnvSpecNext == PrepareChildEnv \/ InternalSpawn
EnvSpec == EnvInit /\ [][EnvSpecNext]_vars


(***************************************************************************)
(* Properties.  Helpers first: reading `ops`, the operations of the last   *)
(* NetNs::new or Drop for NetNs.                                           *)
(***************************************************************************)
\* the names a successful setup of n namespaces makes, in order
NamesUpTo(n) == [k \in 1..n |-> ns_name(Prefix, k - 1)]

\* the reverse of a sequence
Reverse(s) == [k \in 1..Len(s) |-> s[Len(s) + 1 - k]]

\* the elements of a sequence
Range(s) == {s[k] : k \in 1..Len(s)}

\* positions of ops that are commands spawned (o: which command)
Cmds(o) == {k \in 1..Len(ops) : ops[k].op = o /\ ops[k].via \in {"ip", "true"}}

\* positions of ops that are signals sent (o: "term" or "kill")
Sent(o) == {k \in 1..Len(ops) : ops[k].op = o /\ ops[k].via = "kill"}

\* positions of ops where the grace interval is waited
Sleeps == {k \in 1..Len(ops) : ops[k].via = "sleep"}

\* positions of ops where the configuration directory is removed
Rmdirs == {k \in 1..Len(ops) : ops[k].op = "rmdir" /\ ops[k].via = "fs"}

\* every position of A is before every position of B
AllBefore(A, B) == \A a \in A, b \in B : a < b

\* the last invocation was a NetNs::new that failed at step n
NewFailedAt(n) == last.kind = "new" /\ last.step = n

\* the last invocation was a Drop for NetNs
Dropped == last.kind = "drop"

\* the first enumeration of a drop succeeded and listed ps
FirstListed(ps) ==
    /\ Dropped
    /\ \E k \in Cmds("pids") :
          /\ \A j \in Cmds("pids") : k <= j
          /\ ops[k].ok /\ ops[k].out = ps

\* C1 (as stated): the namespaces are made in index order, and the ones
\* that were owned are destroyed in exactly the reverse of the order in
\* which they were made, on shutdown and on unwind alike.
C1_ReverseTeardown ==
    /\ created = NamesUpTo(Len(created))
    /\ \A k \in 1..Len(destroyed) : destroyed[k] = Reverse(created)[k]

\* C2: when the interface-up step of NetNs::new fails for a name, the
\* deletion command for that name is issued once, after the failed step
\* and before the directory is removed and the error returned; the
\* directory removal is issued (unless dry-run); and the name is never
\* owned: it is not in the Vec, and no Drop for NetNs ever runs on it.
C2_UpFailureCompensated ==
    NewFailedAt(3) =>
        /\ Cardinality(Cmds("del")) = 1
        /\ Cardinality(Cmds("up")) = 1
        /\ AllBefore(Cmds("up"), Cmds("del"))
        /\ \A k \in Cmds("up") \cup Cmds("del") : ops[k].ns = last.name
        /\ ndel[last.name] = 1
        /\ ~dryrun => /\ Cardinality(Rmdirs) = 1
                      /\ AllBefore(Cmds("del"), Rmdirs)
        /\ last.name \notin Range(nsps)
        /\ last.name \notin Range(created)
        /\ last.name \notin Range(destroyed)
        /\ result = "err"

C2_Witness ==
    /\ NewFailedAt(3)
    /\ ~dryrun
    /\ Len(created) >= 1
    /\ Cardinality(Rmdirs) = 1

\* C3: once the idle loop has returned StdinClosed or TermSignal the
\* process is tearing down: it can always take its next step, it exits only
\* when no namespace is owned any more, with every namespace that was
\* owned destroyed (its deletion command issued), and with exit code 0.
C3_OrderlyExit ==
    /\ (pc = "ret" /\ ev.type \in {"StdinClosed", "TermSignal"})
          => ENABLED MainDispatch
    /\ pc = "teardown" =>
          /\ ev.type \in {"StdinClosed", "TermSignal"}
          /\ result = "ok"
          /\ exit_code = -1
          /\ ENABLED (DropNsps \/ MainExit)
          /\ Range(created) = Range(destroyed) \cup Range(nsps)
          /\ Len(created) = Len(destroyed) + Len(nsps)
    /\ (pc = "exited" /\ result = "ok") =>
          /\ exit_code = 0
          /\ nsps = <<>>
          /\ Range(destroyed) = Range(created)
          /\ Len(destroyed) = Len(created)
          /\ \A name \in Range(created) : ndel[name] = 1
          /\ ~diag

C3_Witness ==
    /\ pc = "exited" /\ result = "ok" /\ exit_code = 0
    /\ ev.type = "TermSignal"
    /\ Len(destroyed) = MaxN

\* C4: when the creation of namespace k fails, at whichever step, the idle
\* loop is never entered, the namespaces 0..k-1 are destroyed before the
\* diagnostic line is printed, and the process exits with code 1.
C4_SetupFailureUnwinds ==
    /\ \A n \in 1..3 : NewFailedAt(n) =>
          /\ pc \in {"unwind", "exited"} /\ result = "err"
          /\ created = NamesUpTo(i)
          /\ last.name = ns_name(Prefix, i)
          /\ pc = "unwind" => (nsps = created /\ destroyed = <<>>)
    /\ pc = "unwind" =>
          /\ result = "err"
          /\ ~loop_entered /\ ~diag /\ exit_code = -1
          /\ ENABLED (DropNsps \/ MainExit)
          /\ Range(created) = Range(destroyed) \cup Range(nsps)
          /\ Len(created) = Len(destroyed) + Len(nsps)
    /\ (diag \/ (pc = "exited" /\ result = "err")) =>
          /\ pc = "exited" /\ result = "err" /\ diag
          /\ exit_code = 1
          /\ nsps = <<>>
          /\ Range(destroyed) = Range(created)
          /\ Len(destroyed) = Len(created)
          /\ \A name \in Range(created) : ndel[name] = 1
          /\ ~loop_entered

C4_Witness ==
    /\ pc = "exited" /\ result = "err" /\ diag /\ exit_code = 1
    /\ Len(destroyed) >= 1
    /\ closes = 0

\* the step is the return of next_event
Returns == pc # "ret" /\ pc' = "ret"

C6_NeverBlockedInDrain ==
    ~(pc = "consume" /\ StdinReadBlocks /\ pipe # <<>>)

\* C7: once StdinClosed has been returned, stdin_closed stays true, the
\* readiness wait never reports the controlling input again, no read of
\* it is made, and StdinClosed is not returned a second time.
C7_StdinClosedOnce ==
    [][ stdin_closed =>
            /\ stdin_closed'
            /\ ~stdin_pending'
            /\ pc' # "consume"
            /\ stdin_buf' >= stdin_buf
            /\ ~(Returns /\ ev'.type = "StdinClosed")
      ]_vars

C7_Witness ==
    /\ stdin_closed
    /\ pc = "ret" /\ ev.type = "TermSignal"
    /\ stdin_buf > 0

\* C8: when the first enumeration of a drop finds no process, no signal
\* is sent, the grace interval is not waited, there is no second
\* enumeration, and the next commands are interface-down and deletion.
C8_NothingResident ==
    FirstListed({}) =>
        /\ Sent("term") = {} /\ Sent("kill") = {}
        /\ Sleeps = {}
        /\ Cardinality(Cmds("pids")) = 1
        /\ Cardinality(Cmds("down")) = 1 /\ Cardinality(Cmds("del")) = 1
        /\ AllBefore(Cmds("pids"), Cmds("down"))
        /\ AllBefore(Cmds("down"), Cmds("del"))
        /\ \A k \in 1..Len(ops) : ops[k].op # "error" \/ ops[k].ns # last.name
              \/ \E j \in Cmds("down") \cup Cmds("del") : j < k

C8_Witness ==
    /\ FirstListed({})
    /\ ~dryrun
    /\ Cardinality(Cmds("del")) = 1
    /\ Len(destroyed) = MaxN

\* C9: in a drop, a kill is sent to a pid only after the terminate
\* requests went to the pids of the first enumeration, the grace
\* interval of 5 seconds was then waited, and a second enumeration after
\* it listed the pid; the kills go to exactly the pids of that list.
C9_KillAfterGrace ==
    (Dropped /\ Sent("kill") # {}) =>
        /\ Cardinality(Cmds("pids")) = 2
        /\ Cardinality(Sleeps) = 1
        /\ \A k \in Sleeps : ops[k].arg = GraceSecs
        /\ \E f, g \in Cmds("pids") :
              /\ f < g
              /\ ops[f].ok /\ ops[g].ok
              /\ {ops[k].arg : k \in Sent("term")} = ops[f].out
              /\ {ops[k].arg : k \in Sent("kill")} = ops[g].out
              /\ AllBefore({f}, Sent("term"))
              /\ AllBefore(Sleeps, {g})
              /\ AllBefore({g}, Sent("kill"))
        /\ Sent("term") # {}
        /\ AllBefore(Sent("term"), Sleeps)
        /\ AllBefore(Sent("kill"), Cmds("down") \cup Cmds("del"))

C9_Witness ==
    /\ FirstListed({1})
    /\ {ops[k].arg : k \in Sent("kill")} = {2}
    /\ {ops[k].arg : k \in Sent("term")} = {1}

\* C10: one line per namespace goes to the output stream as the namespace
\* becomes owned, in order; the stream is closed once, when all N are
\* owned and before the idle loop; after the close it holds the N lines
\* PREFIX_ns0 .. PREFIX_ns(N-1) and nothing more.
C10_OutputProtocol ==
    /\ closes \in {0, 1}
    /\ closes = 0 => stdout = created
    /\ closes = 1 => /\ stdout = NamesUpTo(nnsp)
                     /\ created = NamesUpTo(nnsp)
    /\ loop_entered => closes = 1
    /\ pc = "idle_new" => closes = 1 /\ ~loop_entered

C10_Witness ==
    /\ loop_entered /\ closes = 1
    /\ Len(stdout) = MaxN
    /\ pc = "poll"

\* C11: once the idle loop is entered, a namespace is destroyed only
\* after next_event has returned StdinClosed or TermSignal; a read that
\* takes data bytes off the controlling input returns no event and goes on
\* reading; and the dispatch of a ChildExit reaps that child and calls
\* next_event again, with every namespace still owned.
C11_TeardownOnlyOnShutdownEvent ==
    [][ /\ (pc' = "teardown" /\ pc # "teardown")
              => (pc = "ret" /\ ev.type \in {"StdinClosed", "TermSignal"})
        /\ (loop_entered /\ (destroyed' # destroyed \/ nsps' # nsps))
              => (pc = "teardown" /\ ev.type \in {"StdinClosed", "TermSignal"})
        /\ (stdin_buf' < stdin_buf /\ pc' \notin {"teardown", "unwind"})
              => /\ pc = "consume" /\ pc' = "consume"
                 /\ ev' = ev /\ ~stdin_closed'
        /\ (pc = "ret" /\ ev.type = "ChildExit" /\ pc' # pc)
              => /\ pc' = "ne_top"
                 /\ ev.pid \notin zombies'
                 /\ nsps' = nsps /\ destroyed' = destroyed
                 /\ result' = result /\ exit_code' = exit_code
      ]_vars

C11_Witness ==
    /\ pc = "ret" /\ ev.type = "ChildExit"
    /\ Len(nsps) = MaxN /\ destroyed = <<>>
    /\ stdin_buf > 0 /\ stdin_state = "open"

\* the step is one read of the controlling input by consume_stdin
ReadsStdin == pc = "consume" /\ (pc' # pc \/ stdin_buf' < stdin_buf)

\* C12: a read of the controlling input that fails with an error other
\* than would-block does what a read of end-of-data does: stdin_closed is
\* set and next_event returns StdinClosed; a read that would block returns
\* no event, leaves stdin_closed false and goes on to the signals.
C12_ReadErrorIsClosure ==
    [][ ReadsStdin =>
          /\ stdin_read \in {"err", "eof"} =>
                /\ stdin_closed'
                /\ pc' = "ret" /\ ev' = StdinClosed
                /\ stdin_buf' = stdin_buf
          /\ stdin_read = "wouldblock" =>
                /\ ~stdin_closed' /\ stdin_closed' = stdin_closed
                /\ pc' = "chk_signal" /\ ev' = ev
      ]_vars

C12_Witness ==
    /\ pc = "ret" /\ ev = StdinClosed
    /\ stdin_state = "err"
    /\ stdin_closed

\* the first enumeration of a drop failed
FirstFailed ==
    /\ Dropped
    /\ \E k \in Cmds("pids") :
          /\ \A j \in Cmds("pids") : k <= j
          /\ ~ops[k].ok

\* C13 (as stated): in a drop every step is attempted whatever failed
\* before it: interface-down, deletion and (unless dry-run) directory
\* removal are each issued once, and a failed first enumeration is still
\* followed by the grace interval and the second enumeration.
C13_EveryStepAttempted ==
    Dropped =>
        /\ Cardinality(Cmds("down")) = 1
        /\ Cardinality(Cmds("del")) = 1
        /\ ~dryrun => Cardinality(Rmdirs) = 1
        /\ FirstFailed => /\ Cardinality(Sleeps) = 1
                          /\ Cardinality(Cmds("pids")) = 2

\* positions of ops that are failed commands (spawned executables)
FailedCmds ==
    {k \in 1..Len(ops) : ops[k].via \in {"ip", "true"} /\ ~ops[k].ok}

\* positions of ops that are failed directory removals
FailedRmdirs == {k \in Rmdirs : ~ops[k].ok}

\* position k of ops is followed at once by a line o on the error stream
LoggedAs(k, o) ==
    k < Len(ops) /\ ops[k + 1].op = o /\ ops[k + 1].via = "stderr"

\* C14: a failure of a step of a drop (an enumeration, a signal, link
\* down, netns del, the directory removal) has no effect beyond a line on
\* the error stream: the result of inner_main is fixed when teardown
\* starts, the exit code follows from that result alone, the other steps
\* of the drop are still issued, and the remaining namespaces are still
\* dropped.
C14_TeardownFailuresOnlyLogged ==
    /\ pc = "teardown" => (result = "ok" /\ exit_code = -1)
    /\ pc = "unwind" => (result = "err" /\ exit_code = -1)
    /\ (pc = "exited" /\ result # "none") =>
          /\ exit_code = (IF result = "ok" THEN 0 ELSE 1)
          /\ nsps = <<>>
          /\ Len(destroyed) = Len(created)
    /\ Dropped =>
          /\ \A k \in FailedCmds : LoggedAs(k, "error")
          /\ \A k \in FailedRmdirs : LoggedAs(k, "warning")
          /\ Cardinality(Cmds("down")) = 1
          /\ Cardinality(Cmds("del")) = 1
          /\ ~dryrun => Cardinality(Rmdirs) = 1
          /\ pc \in {"teardown", "unwind", "exited"}
          /\ pc # "exited" => ENABLED (DropNsps \/ MainExit)

C14_Witness ==
    /\ pc = "exited" /\ result = "ok" /\ exit_code = 0
    /\ Dropped
    /\ Len(destroyed) = MaxN
    /\ \E k \in Sent("term") : ~ops[k].ok
    /\ \E k \in Cmds("pids") : ~ops[k].ok
    /\ \E k \in Cmds("down") : ~ops[k].ok
    /\ \E k \in Cmds("del") : ~ops[k].ok
    /\ FailedRmdirs # {}

\* sig is on its way to next_event: pending on the process, held by the
\* relay worker, or a token in the signal pipe
InFlight(sig) ==
    \/ sig \in sigpending
    \/ wsig = sig
    \/ \E k \in 1..Len(pipe) : pipe[k] = serialize_signal(sig)

C16_DryRunNoSideEffects ==
    dryrun =>
        /\ verbose
        /\ \A k \in 1..Len(ops) :
              /\ ops[k].via \in {"true", "stderr"}
              /\ ops[k].via = "true" =>
                    /\ k > 1
                    /\ ops[k - 1].via = "stderr"
                    /\ ops[k - 1].op = ops[k].op
                    /\ ops[k - 1].ns = ops[k].ns
                    /\ ops[k].out = {}
        /\ Sent("term") = {} /\ Sent("kill") = {} /\ Sleeps = {}
        /\ Rmdirs = {}

C16_Witness ==
    /\ dryrun
    /\ pc = "exited" /\ Dropped
    /\ Len(destroyed) = MaxN
    /\ Cardinality({k \in 1..Len(ops) : ops[k].via = "true"}) = 3

\* the keys of a list of pairs, and of a set of pairs
KeysOf(list) == {list[k][1] : k \in 1..Len(list)}
KeysIn(m) == {p[1] : p \in m}

\* the positions of the inherited environment whose variable is named
\* TERM, TZ or LANG, or has a name that starts with LC_
Allowed == {k \in 1..Len(environ) : environ[k][1] \in {TERM, TZ, LANG, LC_ALL}}

\* C17: the list made by prepare_child_env holds the inherited variables
\* named TERM, TZ, LANG or LC_*, each as inherited, and PATH with the
\* fixed value, and nothing else (no inherited PATH, LANGUAGE, LC, HOME);
\* it is sorted; and the environment of a spawned command has each key of
\* the list once, PATH bound to the fixed value.
C17_ChildEnvAllowList ==
    pc \in {"spawn", "spawned"} =>
        /\ Range(child_env) =
              {environ[k] : k \in Allowed} \cup {<<PATH, FixedPath>>}
        /\ Len(child_env) = Cardinality(Allowed) + 1
        /\ Cardinality({k \in 1..Len(child_env) : child_env[k][1] = PATH}) = 1
        /\ \A a, b \in 1..Len(child_env) :
              a < b => \/ KeyLess(child_env[a][1], child_env[b][1])
                       \/ /\ child_env[a][1] = child_env[b][1]
                          /\ child_env[a][2] \in {"a", child_env[b][2]}
        /\ (\A a, b \in 1..Len(environ) :
                environ[a][1] = environ[b][1] => a = b)
              => \A a, b \in 1..Len(child_env) :
                    child_env[a][1] = child_env[b][1] => a = b
        /\ pc = "spawned" =>
              /\ KeysIn(spawn_env) = KeysOf(child_env)
              /\ \A p, q \in spawn_env : p[1] = q[1] => p = q
              /\ spawn_env \subseteq Range(child_env)
              /\ <<PATH, FixedPath>> \in spawn_env

C17_Witness ==
    /\ pc = "spawned"
    /\ environ = <<<<PATH, "a">>, <<LC_ALL, "b">>>>
    /\ child_env = <<<<LC_ALL, "b">>, <<PATH, FixedPath>>>>
    /\ spawn_env = {<<LC_ALL, "b">>, <<PATH, FixedPath>>}

\* C18: with a requested count outside 1..1024 the process gets no
\* further than parse_cmdline: the mask is not installed, the worker is
\* not started, nothing is spawned, created or destroyed, no line is
\* written to the output stream, which is not closed either, and the
\* process exits with code 1.
C18_CountOutOfRangeRejected ==
    (nnsp < 1 \/ nnsp > 1024) =>
        /\ pc \in {"parse", "exited", "killed"}
        /\ ~masked /\ wpc = "off"
        /\ ops = <<>> /\ created = <<>> /\ destroyed = <<>> /\ nsps = <<>>
        /\ stdout = <<>> /\ closes = 0
        /\ result = "none" /\ ~loop_entered
        /\ pc = "exited" => exit_code = 1
        /\ pc = "parse" => ENABLED ParseCmdline

C18_Witness ==
    /\ nnsp = 0
    /\ pc = "exited" /\ exit_code = 1
    /\ stdout = <<>> /\ ops = <<>>

\* C19: next_event looks at the controlling input first, then at the
\* signals, then at the children: a signal or a child is returned only
\* when no readiness of the input is left to look at; a call that finds
\* the input closed returns StdinClosed and leaves the signal pipe, the
\* pending signals and the pending flags as they are; and, the input
\* found closed at a wake-up at which a SIGTERM token is at the head of
\* the pipe too, that signal is returned by a later call.
C19_ClosureThenSignalsThenChildren ==
    /\ [][ /\ (Returns /\ ev'.type = "TermSignal")
                 => (pc = "chk_signal" /\ ~stdin_pending)
           /\ (Returns /\ ev'.type = "ChildExit")
                 => (pc = "chk_child" /\ ~stdin_pending)
           /\ (pc = "consume" /\ stdin_state # "open" /\ pc' # pc)
                 => /\ pc' = "ret" /\ ev' = StdinClosed
                    /\ pipe' = pipe /\ sigpending' = sigpending
                    /\ zombies' = zombies
                    /\ signal_pending' = signal_pending
                    /\ children_pending' = children_pending
         ]_vars
    /\ (/\ pc = "poll" /\ ~stdin_closed /\ stdin_state # "open"
        /\ pipe # <<>> /\ Head(pipe) = serialize_signal("SIGTERM"))
          ~> (pc = "ret" /\ ev = TermSignal("SIGTERM"))

C19_Witness ==
    /\ pc = "ret" /\ ev = StdinClosed
    /\ signal_pending
    /\ pipe = <<serialize_signal("SIGTERM")>>
    /\ zombies # {}

\* C20: every signal that next_event returns as TermSignal is one whose
\* default action is the termination of the process without a core dump.
C20_OnlyPlainTermination ==
    ev.type = "TermSignal" => DefaultAction(ev.sig) = "term"

\* C21: the destroy protocol runs once on every namespace that was owned
\* and on no other: a name is destroyed only if it was owned, never twice,
\* and by the exit of the process every owned name has been destroyed; a
\* Drop for NetNs issues the deletion command once; the name whose
\* construction failed is not owned and is never destroyed, and its only
\* deletion is the constructor's; no name has the deletion command issued
\* for it more than once.
C21_DestroyedExactlyOnce ==
    /\ [](/\ \A j, k \in 1..Len(destroyed) :
                destroyed[j] = destroyed[k] => j = k
          /\ Range(destroyed) \subseteq Range(created)
          /\ Range(nsps) \cap Range(destroyed) = {}
          /\ \A name \in Names : ndel[name] <= 1
          /\ \A name \in Range(destroyed) : ndel[name] = 1
          /\ \A name \in Range(nsps) : ndel[name] = 0
          /\ Dropped => /\ Cardinality(Cmds("del")) = 1
                        /\ \A k \in Cmds("del") : ops[k].ns = last.name
                        /\ last.name \in Range(destroyed)
          /\ pc = "exited" => /\ nsps = <<>>
                              /\ Range(destroyed) = Range(created))
    /\ [][ /\ (pc = "create" /\ pc' = "unwind")
                 => /\ last'.kind = "new" /\ last'.step > 0
                    /\ last'.name \notin Range(created')
                    /\ ndel'[last'.name] = Cardinality({k \in 1..Len(ops') :
                          ops'[k].op = "del" /\ ops'[k].via \in {"ip", "true"}})
                    /\ ndel'[last'.name] = IF last'.step = 3 THEN 1 ELSE 0
           /\ pc \in {"unwind", "teardown", "exited"} => created' = created
           /\ destroyed' # destroyed
                 => /\ pc \in {"unwind", "teardown"}
                    /\ \E name \in Range(nsps) :
                          /\ destroyed' = Append(destroyed, name)
                          /\ last' = [kind |-> "drop", name |-> name, step |-> 0]
         ]_vars

C21_Witness ==
    /\ pc = "exited" /\ result = "err"
    /\ Len(created) >= 1 /\ Len(destroyed) = Len(created)
    /\ ndel[ns_name(Prefix, i)] = 1
    /\ \A name \in Range(created) : ndel[name] = 1

\* positions of ops where the configuration directory is made
Mkdirs == {k \in 1..Len(ops) : ops[k].op = "mkdir" /\ ops[k].via = "fs"}

\* C22: when `ip netns add` fails in NetNs::new for a name, the directory
\* made for that name is removed (one removal, after the failed command;
\* nothing was made, and nothing is removed, in dry-run mode) before the
\* error is returned; no deletion and no interface command is issued for
\* the name; and the name is not owned: it is not in the Vec, is not
\* printed, and is never destroyed.
C22_AddFailureRemovesDirectory ==
    NewFailedAt(2) =>
        /\ Cardinality(Cmds("add")) = 1
        /\ \A k \in Cmds("add") : ~ops[k].ok /\ ops[k].ns = last.name
        /\ Cmds("del") = {} /\ Cmds("up") = {} /\ Cmds("down") = {}
        /\ Cmds("pids") = {} /\ Sent("term") = {} /\ Sent("kill") = {}
        /\ ndel[last.name] = 0
        /\ Cardinality(Rmdirs) = Cardinality(Mkdirs)
        /\ Cardinality(Rmdirs) = IF dryrun THEN 0 ELSE 1
        /\ \A k \in Rmdirs \cup Mkdirs : ops[k].ns = last.name
        /\ AllBefore(Mkdirs, Cmds("add"))
        /\ AllBefore(Cmds("add"), Rmdirs)
        /\ last.name \notin Range(nsps)
        /\ last.name \notin Range(created)
        /\ last.name \notin Range(destroyed)
        /\ last.name \notin Range(stdout)
        /\ result = "err" /\ pc \in {"unwind", "exited"}

C22_Witness ==
    /\ NewFailedAt(2)
    /\ ~dryrun
    /\ Len(created) >= 1
    /\ \E k \in Rmdirs : ops[k].ok

\* positions of ops that belong to kill_processes_in_namespace
KillSteps == Cmds("pids") \cup Sent("term") \cup Sleeps \cup Sent("kill")

\* the order of the steps of one Drop for NetNs: the enumerations, signals
\* and grace interval, then one interface-down command, then one deletion
\* command, then the removal of the directory (one, unless dry-run), which
\* is the last thing done to the outside world
DropOrder ==
    /\ Cardinality(Cmds("pids")) >= 1
    /\ Cardinality(Cmds("down")) = 1
    /\ Cardinality(Cmds("del")) = 1
    /\ Cardinality(Rmdirs) = IF dryrun THEN 0 ELSE 1
    /\ AllBefore(KillSteps, Cmds("down"))
    /\ AllBefore(Cmds("down"), Cmds("del"))
    /\ AllBefore(Cmds("del"), Rmdirs)
    /\ \A k \in 1..Len(ops) : \A r \in Rmdirs :
          (k > r) => ops[k].via = "stderr"
    /\ \A k \in 1..Len(ops) : ops[k].ns = last.name

\* C23 (as stated): the steps of one teardown are in that order, and the
\* directory is never removed while the namespace still exists: every
\* removal comes after a deletion command that succeeded.
C23_DirectoryAfterNamespaceGone ==
    Dropped =>
        /\ DropOrder
        /\ \A r \in Rmdirs : \E d \in Cmds("del") : d < r /\ ops[d].ok

\* C23 (amended): the steps of one teardown are in that order, and the
\* directory is removed after the deletion command has been issued,
\* whether or not that command succeeded.
C23_TeardownOrder ==
    Dropped =>
        /\ DropOrder
        /\ \A r \in Rmdirs : \E d \in Cmds("del") : d < r

C23_Witness ==
    /\ Dropped /\ ~dryrun
    /\ Sent("kill") # {}
    /\ \E d \in Cmds("del") : ~ops[d].ok
    /\ \E r \in Rmdirs : ops[r].ok

\* the signal occurrences the worker has dequeued and next_event has not
\* read, as their tokens: those of the pipe, oldest first, then the one
\* the worker is about to write
Dequeued ==
    pipe \o (IF wpc = "write" THEN <<serialize_signal(wsig)>> ELSE <<>>)

C25_ReapQueryOnlyPeeks ==
    [][ /\ (zombies \ zombies' # {})
              => /\ pc = "ret" /\ ev.type = "ChildExit"
                 /\ zombies' = zombies \ {ev.pid}
        /\ (pc' = "ret" /\ ev'.type = "ChildExit")
              => /\ ev'.pid \in zombies'
                 /\ children_pending'
        /\ (children_pending /\ ~children_pending')
              => /\ pc = "chk_child" /\ zombies = {}
                 /\ pc' = "ne_top"
        /\ (children_pending /\ pc = "ne_top" /\ pc' # pc)
              => pc' = "chk_stdin"
        /\ (children_pending /\ pc = "chk_child" /\ zombies # {} /\ pc' # pc)
              => /\ pc' = "ret" /\ ev'.type = "ChildExit"
                 /\ ev'.pid \in zombies
                 /\ zombies' = zombies
      ]_vars

C25_Witness ==
    /\ pc = "ret" /\ ev.type = "ChildExit"
    /\ Cardinality(zombies) = MaxChildren
    /\ children_pending
    /\ pipe = <<>> /\ sigpending = {} /\ wpc = "wait"

\* C26: a call of run or run_get_output returns Ok exactly when the child
\* exited with status 0; a child that exited with another code, or was
\* killed by a signal, gives UnsuccessfulChild with that code or that
\* signal (its name, or its number when it has none) and the whole
\* command line as it was passed in, in dry-run mode too, where the
\* executable spawned is `true`; and the child is spawned once, never
\* again after a failure.
C26_ExitClassification ==
    /\ sub.spawns <= 1
    /\ pc = "run_done" =>
          /\ sub.spawns = 1
          /\ sub.exe = (IF dryrun THEN "true" ELSE sub.argv[1])
          /\ <<sub.argv[1]>> \o sub.args = sub.argv
          /\ (sub.ret.type = "Ok") <=> (sub.st.kind = "exited" /\ sub.st.code = 0)
          /\ (sub.st.kind = "exited" /\ sub.st.code # 0) =>
                /\ sub.ret.type = "UnsuccessfulChild"
                /\ sub.ret.how = "code" /\ sub.ret.code = sub.st.code
                /\ sub.ret.text = join(sub.argv)
          /\ sub.st.kind = "signaled" =>
                /\ sub.ret.type = "UnsuccessfulChild"
                /\ \/ sub.ret.how = "sig" /\ SigNum(sub.ret.sig) = sub.st.sig
                   \/ /\ sub.ret.how = "signo" /\ sub.ret.code = sub.st.sig
                      /\ \A sg \in AllSignals : SigNum(sg) # sub.st.sig
                /\ sub.ret.text = join(sub.argv)
          /\ sub.st.kind = "none" => sub.ret.type = "IOError"
          /\ sub.ret.type \in {"Ok", "UnsuccessfulChild", "IOError"}

C26_Witness ==
    /\ pc = "run_done" /\ dryrun
    /\ sub.how = "run_get_output"
    /\ sub.st.kind = "signaled"
    /\ sub.ret.type = "UnsuccessfulChild" /\ sub.ret.sig = "SIGKILL"
    /\ sub.exe = "true" /\ Head(sub.ret.text) = "ip"

\* C27: every command of the setup is waited for in run, and leaves a
\* SIGCHLD on its way to next_event; next_event returns ChildExit for a
\* child that has exited and is not reaped, and for nothing else: when the
\* token is read and no such child exists, the reap query finds none,
\* children_pending is cleared without a return, and with no flag set the
\* next thing the loop does is wait in poll.
C27_NoChildExitForWaitedChildren ==
    [][ /\ (pc = "create" /\ Len(created') > Len(created))
              => InFlight("SIGCHLD")'
        /\ (pc' = "ret" /\ ev'.type = "ChildExit")
              => ev'.pid \in zombies
        /\ (pc = "chk_child" /\ children_pending /\ zombies = {} /\ pc' # pc)
              => /\ ~children_pending'
                 /\ pc' = "ne_top" /\ ev' = ev
        /\ (/\ pc = "ne_top" /\ pc' # pc
            /\ ~stdin_pending /\ ~signal_pending /\ ~children_pending)
              => pc' = "poll"
      ]_vars

C27_Witness ==
    /\ pc = "chk_child" /\ children_pending
    /\ zombies = {} /\ ev = NoEvent
    /\ Len(created) = MaxN
    /\ ~InFlight("SIGCHLD")

C29_TokenRoundTrip ==
    /\ [](\A sig \in sigset_normal_termination :
             /\ serialize_signal(sig) \in 0..(TokenLimit - 1)
             /\ deserialize_signal(serialize_signal(sig)) = sig)
    /\ [][ /\ (wpc = "write" /\ wpc' = "wait")
                 => /\ Len(pipe') = Len(pipe) + 1
                    /\ pipe'[Len(pipe')] \in 0..(TokenLimit - 1)
                    /\ deserialize_signal(pipe'[Len(pipe')]) = wsig
           /\ (pc = "chk_signal" /\ Len(pipe') < Len(pipe))
                 => \E sig \in sigset_normal_termination :
                       /\ Head(pipe) = serialize_signal(sig)
                       /\ IF sig = "SIGCHLD"
                          THEN children_pending' /\ pc' = "chk_child"
                          ELSE pc' = "ret" /\ ev' = TermSignal(sig)
         ]_vars

C29_Witness ==
    /\ pc = "ret" /\ ev = TermSignal("SIGUSR2")
    /\ pipe = <<>> /\ sigpending = {} /\ wpc = "wait"

====
